---- MODULE Spec2Model ----
(***************************************************************************)
(* Model of the telemetry Reporter (reporter.go): ReportEvent, Shutdown    *)
(* and Close over an errgroup.Group with a limit of maxConcurrentReports.  *)
(*                                                                         *)
(* The errgroup is modelled by its semaphore (sem), its WaitGroup counter  *)
(* (wg), its first error (err) and the cancellation of the context it      *)
(* derived (ctxCancelled).  Delivery tasks that are not under observation  *)
(* are counted (running); one ReportEvent call, chosen freely, is          *)
(* observed individually together with the event it reports (obs, event).  *)
(***************************************************************************)
EXTENDS Naturals, Sequences, FiniteSets

VARIABLES
    doNotTrack,    \* os.Getenv("DO_NOT_TRACK") != ""
    shuttingDown,  \* Reporter.shuttingDown
    sem,           \* tokens held in the group's semaphore (SetLimit)
    wg,            \* the group's WaitGroup counter
    err,           \* the group's first error: "nil" or "Canceled"
    ctxCancelled,  \* reportsCtx is done
    running,       \* delivery goroutines in flight, other than the observed one
    cancelTasks,   \* Close's tasks (func returning context.Canceled) not yet run
    pc,            \* per caller: position inside ReportEvent
    obs,           \* the observed ReportEvent call
    event,         \* the event of the observed call
    lpc,           \* position of the lifecycle caller
    inShutdown,    \* the lifecycle caller is inside Shutdown
    deadline,      \* Shutdown's ctx: "none", "live", "expired" (at the call), "late"
    waiter,        \* Shutdown's goroutine: "none","start","blocked","released","sent"
    lcalls,        \* lifecycle calls made so far
    shutdownReturned, \* some Shutdown call has returned nil
    closeReturned,    \* some Close call (not inside Shutdown) has returned nil
    reported,      \* events reported with the opt-out signal inactive (calls
                   \* returned) before any task of the pool finished
    attempted,     \* of these, the ones that reached TryGo
    anyDone,       \* some pool task has finished
    lastRet,       \* what the last lifecycle call returned: "none", "nil" or an error
    reportsDone,   \* Shutdown's channel: "empty", or the error its goroutine sent
    rawEvent,      \* the observed event as the caller built it
    enrichments    \* ReportEvent calls that enriched the observed event

vars == <<doNotTrack, shuttingDown, sem, wg, err, ctxCancelled, running,
          cancelTasks, pc, obs, event, lpc, inShutdown, deadline,
          waiter, lcalls, shutdownReturned, closeReturned, reported, attempted,
          anyDone, lastRet, reportsDone, rawEvent, enrichments>>

groupVars == <<sem, wg, err, ctxCancelled, running, cancelTasks>>
retVars == <<lastRet, reportsDone>>
lifeVars == <<lpc, inShutdown, deadline, waiter, lcalls, shutdownReturned, closeReturned,
              retVars>>
eventVars == <<rawEvent, enrichments>>
burstVars == <<reported, attempted, anyDone>>

----------------------------------------------------------------------------
\* Program constants and configuration.

maxConcurrentReports == 16

\* Reporter.sessionID and Reporter.tags as set by NewReporter.
sessionID == "session"
tags == <<"test-tag", "second-tag">>

\* Bounds of the model.
MaxLifecycleCalls == 2
MaxReports == 2

Callers == {"c1", "c2"}

\* Events a caller may hand to ReportEvent.
RawEvents ==
    { [SessionID |-> "", Timestamp |-> "nil", Tags |-> <<>>],
      [SessionID |-> "caller", Timestamp |-> "nil", Tags |-> <<"user-tag", "other-tag">>] }

NoEvent == [SessionID |-> "", Timestamp |-> "nil", Tags |-> <<>>]

NoObs == [who |-> "none", out |-> "none", task |-> "none", invoked |-> 0,
          eligible |-> FALSE, afterShutdown |-> FALSE, afterClose |-> FALSE,
          result |-> "none"]

\* What client.ReportEvent returns: nil, or an error (transport error, status
\* other than 200, cancelled or timed-out context).
Outcomes == {"ok", "failed"}

\* if err != nil && !errors.Is(err, context.Canceled) { return err }; return nil
NonCancel(e) == IF e # "nil" /\ e # "Canceled" THEN e ELSE "nil"

Cap(n) == IF n > maxConcurrentReports THEN maxConcurrentReports + 1 ELSE n

----------------------------------------------------------------------------
Init ==
    /\ doNotTrack \in BOOLEAN
    /\ shuttingDown = FALSE
    /\ sem = 0
    /\ wg = 0
    /\ err = "nil"
    /\ ctxCancelled = FALSE
    /\ running = 0
    /\ cancelTasks = 0
    /\ pc = [c \in Callers |-> "idle"]
    /\ obs = NoObs
    /\ event = NoEvent
    /\ lpc = "idle"
    /\ inShutdown = FALSE
    /\ deadline = "none"
    /\ waiter = "none"
    /\ lcalls = 0
    /\ shutdownReturned = FALSE
    /\ closeReturned = FALSE
    /\ reported = 0
    /\ attempted = 0
    /\ anyDone = FALSE
    /\ lastRet = "none"
    /\ reportsDone = "empty"
    /\ rawEvent = NoEvent
    /\ enrichments = 0

----------------------------------------------------------------------------
\* The environment: DO_NOT_TRACK is set or unset (os.Setenv / os.Unsetenv).
SetDoNotTrack(b) ==
    /\ doNotTrack # b
    /\ doNotTrack' = b
    /\ UNCHANGED <<shuttingDown, groupVars, pc, obs, event, eventVars, lifeVars, burstVars>>

\* A caller builds an event; its next ReportEvent call is the observed one.
Observe(c, ev) ==
    /\ obs.who = "none"
    /\ pc[c] = "idle"
    /\ obs' = [obs EXCEPT !.who = c]
    /\ event' = ev
    /\ rawEvent' = ev
    /\ enrichments' = 0
    /\ UNCHANGED <<doNotTrack, shuttingDown, groupVars, pc, lifeVars, burstVars>>

IsObserved(c) == obs.who = c /\ obs.out \in {"none", "calling"}

\* Variant of Enrich: an event that already has a timestamp keeps its tags.
Enrich_Once(ev) ==
    [ev EXCEPT !.Timestamp = "now",
               !.SessionID = IF @ = "" THEN sessionID ELSE @,
               !.Tags = IF ev.Timestamp = "nil" THEN @ \o tags ELSE @]

\* Variant of Enrich: the reporter's session ID replaces the caller's.
Enrich_Overwrite(ev) ==
    [ev EXCEPT !.Timestamp = "now",
               !.SessionID = sessionID,
               !.Tags = @ \o tags]

\* Event enrichment: the timestamp is set, the session ID is filled in when
\* empty, the reporter's tags are appended.
Enrich(ev) ==
    [ev EXCEPT !.Timestamp = "now",
               !.SessionID = IF @ = "" THEN sessionID ELSE @,
               !.Tags = @ \o tags]

\* ReportEvent returns after enrichment: the calls that returned before any
\* task of the pool finished are counted, up to maxConcurrentReports + 1.
Returned(tried) ==
    /\ reported' = IF anyDone THEN 0 ELSE Cap(reported + 1)
    /\ attempted' = IF anyDone THEN 0 ELSE IF tried THEN Cap(attempted + 1) ELSE attempted
    /\ UNCHANGED anyDone

\* Variant of ReportEventEnter: the event is enriched before the opt-out check.
ReportEventEnter_EnrichFirst(c) ==
    /\ pc[c] = "idle"
    /\ event' = IF IsObserved(c) THEN Enrich(event) ELSE event
    /\ enrichments' = IF IsObserved(c) THEN enrichments + 1 ELSE enrichments
    /\ UNCHANGED rawEvent
    /\ IF doNotTrack
       THEN /\ obs' = IF IsObserved(c)
                      THEN [obs EXCEPT !.who = "returned", !.out = "disabled",
                                       !.afterShutdown = shutdownReturned,
                                       !.afterClose = closeReturned /\ ~shuttingDown]
                      ELSE obs
            /\ UNCHANGED <<pc, burstVars>>
       ELSE /\ pc' = [pc EXCEPT ![c] = "load"]
            /\ obs' = IF IsObserved(c)
                      THEN [obs EXCEPT !.out = "calling",
                                       !.eligible = sem < maxConcurrentReports,
                                       !.afterShutdown = shutdownReturned,
                                       !.afterClose = closeReturned /\ ~shuttingDown]
                      ELSE obs
            /\ UNCHANGED burstVars
    /\ UNCHANGED <<doNotTrack, shuttingDown, groupVars, lifeVars>>

\* Variant of ReportEventEnter: the opt-out signal is taken to be inactive
\* without being read.
ReportEventEnter_NoCheck(c) ==
    /\ pc[c] = "idle"
    /\ pc' = [pc EXCEPT ![c] = "load"]
    /\ obs' = IF IsObserved(c)
              THEN [obs EXCEPT !.out = "calling",
                               !.eligible = sem < maxConcurrentReports,
                               !.afterShutdown = shutdownReturned,
                               !.afterClose = closeReturned /\ ~shuttingDown]
              ELSE obs
    /\ event' = IF IsObserved(c) THEN Enrich(event) ELSE event
    /\ enrichments' = IF IsObserved(c) THEN enrichments + 1 ELSE enrichments
    /\ UNCHANGED <<rawEvent, burstVars>>
    /\ UNCHANGED <<doNotTrack, shuttingDown, groupVars, lifeVars>>

\* ReportEvent, from the opt-out check to the end of enrichment.
ReportEventEnter(c) ==
    /\ pc[c] = "idle"
    /\ IF doNotTrack
       THEN /\ obs' = IF IsObserved(c)
                      THEN [obs EXCEPT !.who = "returned", !.out = "disabled",
                                       !.afterShutdown = shutdownReturned,
                                       !.afterClose = closeReturned /\ ~shuttingDown]
                      ELSE obs
            /\ UNCHANGED <<pc, event, eventVars, burstVars>>
       ELSE /\ pc' = [pc EXCEPT ![c] = "load"]
            /\ obs' = IF IsObserved(c)
                      THEN [obs EXCEPT !.out = "calling",
                                       !.eligible = sem < maxConcurrentReports,
                                       !.afterShutdown = shutdownReturned,
                                       !.afterClose = closeReturned /\ ~shuttingDown]
                      ELSE obs
            /\ event' = IF IsObserved(c) THEN Enrich(event) ELSE event
            /\ enrichments' = IF IsObserved(c) THEN enrichments + 1 ELSE enrichments
            /\ UNCHANGED <<rawEvent, burstVars>>
    /\ UNCHANGED <<doNotTrack, shuttingDown, groupVars, lifeVars>>

\* ReportEvent: the shuttingDown check.
ReportEventLoad(c) ==
    /\ pc[c] = "load"
    /\ IF shuttingDown
       THEN /\ pc' = [pc EXCEPT ![c] = "idle"]
            /\ obs' = IF IsObserved(c) THEN [obs EXCEPT !.who = "returned", !.out = "shuttingdown"]
                      ELSE obs
            /\ Returned(FALSE)
       ELSE /\ pc' = [pc EXCEPT ![c] = "trygo"]
            /\ UNCHANGED <<obs, burstVars>>
    /\ UNCHANGED <<doNotTrack, shuttingDown, groupVars, event, eventVars, lifeVars>>

\* Variant of ReportEventTryGo: the group has no limit.
ReportEventTryGo_NoLimit(c) ==
    /\ pc[c] = "trygo"
    /\ pc' = [pc EXCEPT ![c] = "idle"]
    /\ sem' = sem + 1
    /\ wg' = wg + 1
    /\ IF IsObserved(c)
       THEN /\ obs' = [obs EXCEPT !.who = "returned", !.out = "started",
                                  !.task = "spawned"]
            /\ UNCHANGED running
       ELSE /\ running' = running + 1
            /\ UNCHANGED obs
    /\ Returned(TRUE)
    /\ UNCHANGED <<doNotTrack, shuttingDown, err, ctxCancelled, cancelTasks, event, eventVars,
                   lifeVars>>

\* Variant of ReportEventTryGo: an event that found the pool full is warned
\* about and then delivered by a goroutine outside the pool.
ReportEventTryGo_Fallback(c) ==
    /\ pc[c] = "trygo"
    /\ pc' = [pc EXCEPT ![c] = "idle"]
    /\ IF sem < maxConcurrentReports
       THEN /\ sem' = sem + 1
            /\ wg' = wg + 1
            /\ IF IsObserved(c)
               THEN /\ obs' = [obs EXCEPT !.who = "returned", !.out = "started",
                                          !.task = "spawned"]
                    /\ UNCHANGED running
               ELSE /\ running' = running + 1
                    /\ UNCHANGED obs
       ELSE /\ obs' = IF IsObserved(c)
                      THEN [obs EXCEPT !.who = "returned", !.out = "toomany",
                                       !.task = "spawned"]
                      ELSE obs
            /\ UNCHANGED <<sem, wg, running>>
    /\ Returned(TRUE)
    /\ UNCHANGED <<doNotTrack, shuttingDown, err, ctxCancelled, cancelTasks, event, eventVars,
                   lifeVars>>

\* Variant of ReportEventTryGo: reports.Go, which waits for a free token.
ReportEventTryGo_Blocking(c) ==
    /\ pc[c] = "trygo"
    /\ sem < maxConcurrentReports
    /\ pc' = [pc EXCEPT ![c] = "idle"]
    /\ sem' = sem + 1
    /\ wg' = wg + 1
    /\ IF IsObserved(c)
       THEN /\ obs' = [obs EXCEPT !.who = "returned", !.out = "started",
                                  !.task = "spawned"]
            /\ UNCHANGED running
       ELSE /\ running' = running + 1
            /\ UNCHANGED obs
    /\ Returned(TRUE)
    /\ UNCHANGED <<doNotTrack, shuttingDown, err, ctxCancelled, cancelTasks, event, eventVars,
                   lifeVars>>

\* ReportEvent: reports.TryGo and the warning when it did not start.
ReportEventTryGo(c) ==
    /\ pc[c] = "trygo"
    /\ pc' = [pc EXCEPT ![c] = "idle"]
    /\ IF sem < maxConcurrentReports
       THEN /\ sem' = sem + 1
            /\ wg' = wg + 1
            /\ IF IsObserved(c)
               THEN /\ obs' = [obs EXCEPT !.who = "returned", !.out = "started",
                                               !.task = "spawned"]
                    /\ UNCHANGED running
               ELSE /\ running' = running + 1
                    /\ UNCHANGED obs
       ELSE /\ obs' = IF IsObserved(c)
                      THEN [obs EXCEPT !.who = "returned", !.out = "toomany"]
                      ELSE obs
            /\ UNCHANGED <<sem, wg, running>>
    /\ Returned(TRUE)
    /\ UNCHANGED <<doNotTrack, shuttingDown, err, ctxCancelled, cancelTasks, event, eventVars,
                   lifeVars>>

\* errgroup's done(): release the semaphore token, wg.Done(); a counter that
\* reaches zero releases every goroutine blocked in Wait.
GroupDone ==
    /\ sem' = sem - 1
    /\ wg' = wg - 1
    /\ waiter' = IF wg = 1 /\ waiter = "blocked" THEN "released" ELSE waiter
    /\ lpc' = IF wg = 1 /\ lpc = "wait_blocked" THEN "wait_released" ELSE lpc
    /\ anyDone' = TRUE
    /\ reported' = 0
    /\ attempted' = 0

\* Variant of TaskFinish: the task returns the client's error to the group.
TaskFinish_ReturnErr(o) ==
    /\ running > 0
    /\ running' = running - 1
    /\ err' = IF o = "failed" /\ err = "nil" THEN "delivery" ELSE err
    /\ ctxCancelled' = (ctxCancelled \/ (o = "failed" /\ err = "nil"))
    /\ GroupDone
    /\ UNCHANGED <<doNotTrack, shuttingDown, cancelTasks,
                   pc, obs, event, eventVars, inShutdown, deadline, lcalls, shutdownReturned,
                   closeReturned, retVars>>

\* A delivery goroutine runs to its end: it derives its context, calls the
\* client, which returns o, logs a failure and returns nil whatever o is;
\* then the group's done() runs.
TaskFinish(o) ==
    /\ running > 0
    /\ running' = running - 1
    /\ GroupDone
    /\ UNCHANGED <<doNotTrack, shuttingDown, err, ctxCancelled, cancelTasks,
                   pc, obs, event, eventVars, inShutdown, deadline, lcalls, shutdownReturned,
                   closeReturned, retVars>>

\* Variant of ObsTaskRun: the goroutine calls the client a second time.
ObsTaskRun_Retry ==
    /\ obs.task = "spawned"
    /\ obs' = [obs EXCEPT !.task = IF obs.invoked = 0 THEN "spawned" ELSE "delivering",
                          !.invoked = @ + 1]
    /\ UNCHANGED <<doNotTrack, shuttingDown, groupVars, pc, event, eventVars, lifeVars, burstVars>>

\* The observed call's goroutine starts: it derives its context and calls the client.
ObsTaskRun ==
    /\ obs.task = "spawned"
    /\ obs' = [obs EXCEPT !.task = "delivering", !.invoked = @ + 1]
    /\ UNCHANGED <<doNotTrack, shuttingDown, groupVars, pc, event, eventVars, lifeVars, burstVars>>

\* The client returns to the observed call's goroutine, which returns nil; done().
ObsTaskFinish(o) ==
    /\ obs.task = "delivering"
    /\ obs' = [obs EXCEPT !.task = "done", !.result = o]
    /\ GroupDone
    /\ UNCHANGED <<doNotTrack, shuttingDown, err, ctxCancelled, running,
                   cancelTasks, pc, event, eventVars, inShutdown, deadline, lcalls,
                   shutdownReturned, closeReturned, retVars>>

\* Close's task runs: it returns context.Canceled, which the group records
\* as its first error, cancelling the context; then done().
CancelTaskRun ==
    /\ cancelTasks > 0
    /\ cancelTasks' = cancelTasks - 1
    /\ err' = IF err = "nil" THEN "Canceled" ELSE err
    /\ ctxCancelled' = TRUE
    /\ GroupDone
    /\ UNCHANGED <<doNotTrack, shuttingDown, running, pc, obs, event, eventVars,
                   inShutdown, deadline, lcalls, shutdownReturned, closeReturned, retVars>>

\* The context given to NewReporter is cancelled: reportsCtx, derived from
\* it, is done.
ParentCancel ==
    /\ ~ctxCancelled
    /\ ctxCancelled' = TRUE
    /\ UNCHANGED <<doNotTrack, shuttingDown, sem, wg, err, running, cancelTasks,
                   pc, obs, event, eventVars, lifeVars, burstVars>>

----------------------------------------------------------------------------
\* Variant of ShutdownCall: the shuttingDown flag is not stored.
ShutdownCall_NoStore(d) ==
    /\ lpc = "idle"
    /\ lcalls < MaxLifecycleCalls
    /\ lcalls' = lcalls + 1
    /\ waiter' = "start"
    /\ deadline' = d
    /\ inShutdown' = TRUE
    /\ lpc' = "select"
    /\ UNCHANGED <<doNotTrack, shuttingDown, groupVars, pc, obs, event, eventVars,
                   shutdownReturned, closeReturned, burstVars, retVars>>

\* Shutdown: store the flag, start the goroutine that waits, enter the select.
ShutdownCall(d) ==
    /\ lpc = "idle"
    /\ lcalls < MaxLifecycleCalls
    /\ lcalls' = lcalls + 1
    /\ shuttingDown' = TRUE
    /\ waiter' = "start"
    /\ deadline' = d
    /\ inShutdown' = TRUE
    /\ lpc' = "select"
    /\ UNCHANGED <<doNotTrack, groupVars, pc, obs, event, eventVars, shutdownReturned,
                   closeReturned, burstVars, retVars>>

\* Shutdown's ctx expires while Shutdown is in progress.
DeadlineExpire ==
    /\ deadline = "live"
    /\ deadline' = "late"
    /\ UNCHANGED <<doNotTrack, shuttingDown, groupVars, pc, obs, event, eventVars, lpc,
                   inShutdown, waiter, lcalls, shutdownReturned, closeReturned,
                   burstVars, retVars>>

\* The goroutine of Shutdown calls reports.Wait().
WaiterEnter ==
    /\ waiter = "start"
    /\ waiter' = IF wg = 0 THEN "released" ELSE "blocked"
    /\ UNCHANGED <<doNotTrack, shuttingDown, groupVars, pc, obs, event, eventVars, lpc,
                   inShutdown, deadline, lcalls, shutdownReturned, closeReturned,
                   burstVars, retVars>>

\* Wait returns in the goroutine: it cancels the context and the group's
\* error is sent on reportsDone.
WaiterReturn ==
    /\ waiter = "released"
    /\ waiter' = "sent"
    /\ ctxCancelled' = TRUE
    /\ reportsDone' = err
    /\ UNCHANGED lastRet
    /\ UNCHANGED <<doNotTrack, shuttingDown, sem, wg, err, running,
                   cancelTasks, pc, obs, event, eventVars, lpc, inShutdown, deadline,
                   lcalls, shutdownReturned, closeReturned, burstVars>>

\* select: case err := <-reportsDone. err is nil or context.Canceled: return nil.
ShutdownDone ==
    /\ lpc = "select"
    /\ waiter = "sent"
    /\ lpc' = "idle"
    /\ inShutdown' = FALSE
    /\ deadline' = "none"
    /\ waiter' = "none"
    /\ shutdownReturned' = TRUE
    /\ lastRet' = NonCancel(reportsDone)
    /\ reportsDone' = "empty"
    /\ UNCHANGED <<doNotTrack, shuttingDown, groupVars, pc, obs, event, eventVars,
                   lcalls, closeReturned, burstVars>>

\* select: case <-ctx.Done(): return r.Close().
ShutdownDeadline ==
    /\ lpc = "select"
    /\ deadline \in {"expired", "late"}
    /\ lpc' = "go"
    /\ UNCHANGED <<doNotTrack, shuttingDown, groupVars, pc, obs, event, eventVars, inShutdown,
                   deadline, waiter, lcalls, shutdownReturned, closeReturned,
                   burstVars, retVars>>

\* Close is called.
CloseCall ==
    /\ lpc = "idle"
    /\ lcalls < MaxLifecycleCalls
    /\ lcalls' = lcalls + 1
    /\ lpc' = "go"
    /\ UNCHANGED <<doNotTrack, shuttingDown, groupVars, pc, obs, event, eventVars, inShutdown,
                   deadline, waiter, shutdownReturned, closeReturned, burstVars, retVars>>

\* Close: reports.Go(func() error { return context.Canceled }).  Go blocks
\* until the semaphore has a free token.
CloseGo ==
    /\ lpc = "go"
    /\ sem < maxConcurrentReports
    /\ sem' = sem + 1
    /\ wg' = wg + 1
    /\ cancelTasks' = cancelTasks + 1
    /\ lpc' = "wait"
    /\ UNCHANGED <<doNotTrack, shuttingDown, err, ctxCancelled, running,
                   pc, obs, event, eventVars, inShutdown, deadline, waiter, lcalls,
                   shutdownReturned, closeReturned, burstVars, retVars>>

\* Close: reports.Wait() is entered.
CloseWait ==
    /\ lpc = "wait"
    /\ lpc' = IF wg = 0 THEN "wait_released" ELSE "wait_blocked"
    /\ UNCHANGED <<doNotTrack, shuttingDown, groupVars, pc, obs, event, eventVars, inShutdown,
                   deadline, waiter, lcalls, shutdownReturned, closeReturned,
                   burstVars, retVars>>

\* Variant of CloseReturn: the group's error is returned as it is.
CloseReturn_NoFilter ==
    /\ lpc = "wait_released"
    /\ lpc' = "idle"
    /\ ctxCancelled' = TRUE
    /\ inShutdown' = FALSE
    /\ deadline' = "none"
    /\ waiter' = "none"
    /\ shutdownReturned' = (shutdownReturned \/ inShutdown)
    /\ closeReturned' = (closeReturned \/ ~inShutdown)
    /\ lastRet' = err
    /\ reportsDone' = "empty"
    /\ UNCHANGED <<doNotTrack, shuttingDown, sem, wg, err, running,
                   cancelTasks, pc, obs, event, eventVars, lcalls, burstVars>>

\* Close: Wait returns (cancelling the context); the error is nil or
\* context.Canceled, so Close returns nil, and so does a Shutdown around it.
CloseReturn ==
    /\ lpc = "wait_released"
    /\ lpc' = "idle"
    /\ ctxCancelled' = TRUE
    /\ inShutdown' = FALSE
    /\ deadline' = "none"
    /\ waiter' = "none"
    /\ shutdownReturned' = (shutdownReturned \/ inShutdown)
    /\ closeReturned' = (closeReturned \/ ~inShutdown)
    /\ lastRet' = NonCancel(err)
    /\ reportsDone' = "empty"
    /\ UNCHANGED <<doNotTrack, shuttingDown, sem, wg, err, running,
                   cancelTasks, pc, obs, event, eventVars, lcalls, burstVars>>

----------------------------------------------------------------------------
Next ==
    \/ \E b \in BOOLEAN : SetDoNotTrack(b)
    \/ \E c \in Callers, ev \in RawEvents : Observe(c, ev)
    \/ \E c \in Callers : ReportEventEnter(c)
    \/ \E c \in Callers : ReportEventLoad(c)
    \/ \E c \in Callers : ReportEventTryGo(c)
    \/ \E o \in Outcomes : TaskFinish(o)
    \/ ObsTaskRun
    \/ \E o \in Outcomes : ObsTaskFinish(o)
    \/ ParentCancel
    \/ CancelTaskRun
    \/ \E d \in {"live", "expired"} : ShutdownCall(d)
    \/ DeadlineExpire
    \/ WaiterEnter
    \/ WaiterReturn
    \/ ShutdownDone
    \/ ShutdownDeadline
    \/ CloseCall
    \/ CloseGo
    \/ CloseWait
    \/ CloseReturn

Spec == Init /\ [][Next]_vars

\* Scheduling: a ReportEvent call in progress, a started goroutine and a
\* lifecycle call that can take its next step eventually take it; every
\* delivery ends (the client returns at the latest when its context's
\* timeout fires or the shared context is cancelled); reports.Go, blocked on
\* a full pool, obtains a token that is released.  Callers are free to call
\* ReportEvent or not, and Shutdown's deadline is free to expire or not.
Fairness ==
    /\ \A c \in Callers : WF_vars(ReportEventLoad(c)) /\ WF_vars(ReportEventTryGo(c))
    /\ WF_vars(\E o \in Outcomes : TaskFinish(o))
    /\ WF_vars(ObsTaskRun)
    /\ WF_vars(\E o \in Outcomes : ObsTaskFinish(o))
    /\ WF_vars(CancelTaskRun)
    /\ WF_vars(WaiterEnter)
    /\ WF_vars(WaiterReturn)
    /\ WF_vars(ShutdownDone \/ ShutdownDeadline)
    /\ SF_vars(CloseGo)
    /\ WF_vars(CloseWait)
    /\ WF_vars(CloseReturn)

FairSpec == Spec /\ Fairness

----------------------------------------------------------------------------
\* Delivery tasks in flight: started by TryGo and not yet finished.
ObsInFlight == IF obs.task \in {"spawned", "delivering"} THEN 1 ELSE 0
InFlight == running + ObsInFlight

\* The caller of the observed call hands the same event object to ReportEvent
\* again, after the earlier call returned and the delivery it may have
\* started has ended; the new call is the observed one.
ReportEventAgain(c) ==
    /\ obs.who = "returned"
    /\ obs.task \in {"none", "done"}
    /\ pc[c] = "idle"
    /\ enrichments < MaxReports
    /\ obs' = [NoObs EXCEPT !.who = c]
    /\ UNCHANGED <<doNotTrack, shuttingDown, groupVars, pc, event, eventVars, lifeVars,
                   burstVars>>

\* The callers that report in SpecReuse.
ReuseCallers == {"c1"}

NextReuse ==
    \/ \E b \in BOOLEAN : SetDoNotTrack(b)
    \/ \E c \in ReuseCallers, ev \in RawEvents : Observe(c, ev)
    \/ \E c \in ReuseCallers : ReportEventAgain(c)
    \/ \E c \in ReuseCallers : ReportEventEnter(c)
    \/ \E c \in ReuseCallers : ReportEventLoad(c)
    \/ \E c \in ReuseCallers : ReportEventTryGo(c)
    \/ \E o \in Outcomes : TaskFinish(o)
    \/ ObsTaskRun
    \/ \E o \in Outcomes : ObsTaskFinish(o)
    \/ ParentCancel
    \/ CancelTaskRun
    \/ \E d \in {"live", "expired"} : ShutdownCall(d)
    \/ DeadlineExpire
    \/ WaiterEnter
    \/ WaiterReturn
    \/ ShutdownDone
    \/ ShutdownDeadline
    \/ CloseCall
    \/ CloseGo
    \/ CloseWait
    \/ CloseReturn

\* The reporter with one reporting goroutine, which may report an event more
\* than once.
SpecReuse == Init /\ [][NextReuse]_vars

\* The pool's bookkeeping: every token and every WaitGroup unit is a task.
TypeOK ==
    /\ sem = InFlight + cancelTasks
    /\ wg = sem
    /\ sem \in 0..maxConcurrentReports
    /\ pc \in [Callers -> {"idle", "load", "trygo"}]
    /\ lpc \in {"idle", "select", "go", "wait", "wait_blocked", "wait_released"}
    /\ waiter \in {"none", "start", "blocked", "released", "sent"}
    /\ deadline \in {"none", "live", "expired", "late"}
    /\ err \in {"nil", "Canceled"}

\* The observed call's client invocations agree with the state of its task.
ExactlyOnce ==
    \/ obs.task = "spawned" /\ obs.invoked = 0
    \/ obs.task \in {"delivering", "done"} /\ obs.invoked = 1

\* C1 (as stated): a ReportEvent call made while the opt-out signal is
\* inactive and the pool holds fewer than maxConcurrentReports tasks has the
\* Delivery Client invoked exactly once for its event: once the call has
\* returned, its task was started, and the client is called once by it.
C1_Original ==
    (obs.eligible /\ obs.who = "returned") => (obs.out = "started" /\ ExactlyOnce)

\* C1 (amended): the Delivery Client is invoked at most once for the event
\* of a ReportEvent call; it is invoked exactly once, by the started task,
\* when the call found the opt-out signal inactive, the shuttingDown flag
\* unset and a free slot at TryGo, and never when the call dropped the event.
C1_ExactlyOnceWhenStarted ==
    /\ obs.invoked <= 1
    /\ obs.out = "started" => ExactlyOnce
    /\ obs.out # "started" => (obs.task = "none" /\ obs.invoked = 0)

C1_Witness ==
    obs.eligible /\ obs.out = "started" /\ obs.task = "done" /\ obs.invoked = 1

\* C2: a ReportEvent call made while the opt-out signal is active changes
\* neither the event nor the pool nor the shuttingDown flag, starts no task
\* and never has the client invoked.
C2_OptOutNoOp ==
    /\ [](obs.out = "disabled" => (obs.task = "none" /\ obs.invoked = 0))
    /\ [][(obs.out = "none" /\ obs'.out = "disabled")
            => (/\ doNotTrack
                /\ event' = event
                /\ UNCHANGED <<sem, wg, running, cancelTasks, err, ctxCancelled>>
                /\ InFlight' = InFlight
                /\ shuttingDown' = shuttingDown
                /\ pc' = pc)]_vars

C2_Witness ==
    obs.out = "disabled" /\ event \in RawEvents /\ event.Tags # <<>> /\ InFlight > 0
    /\ shuttingDown

\* C3 (as stated): the delivery tasks in flight never exceed
\* maxConcurrentReports, and when more than maxConcurrentReports events were
\* reported (with the opt-out signal inactive) before any delivery
\* completed, exactly maxConcurrentReports deliveries are in flight.
C3_Original ==
    /\ InFlight <= maxConcurrentReports
    /\ (~anyDone /\ reported > maxConcurrentReports) => InFlight = maxConcurrentReports

\* C3 (amended): the delivery tasks in flight never exceed
\* maxConcurrentReports, and when more than maxConcurrentReports events
\* reached TryGo before any task of the pool finished, exactly
\* maxConcurrentReports tasks hold the pool: deliveries, and the task of a
\* Close call if one is in the pool.
C3_PoolBound ==
    /\ InFlight <= maxConcurrentReports
    /\ (~anyDone /\ attempted > maxConcurrentReports)
          => InFlight + cancelTasks = maxConcurrentReports

C3_Witness ==
    ~anyDone /\ attempted > maxConcurrentReports /\ InFlight = maxConcurrentReports

\* C4: an event whose ReportEvent call found the pool at capacity is never
\* given a task and the client is never invoked for it, also after slots
\* have become free.
C4_DroppedForGood ==
    obs.out = "toomany" => (obs.task = "none" /\ obs.invoked = 0)

C4_Witness ==
    obs.out = "toomany" /\ anyDone /\ sem = 0

\* C5: every step of a ReportEvent call in progress can be taken at once,
\* whatever the pool and the lifecycle caller are doing.
C5_NeverBlocks ==
    \A c \in Callers :
        /\ pc[c] = "idle" => ENABLED ReportEventEnter(c)
        /\ pc[c] = "load" => ENABLED ReportEventLoad(c)
        /\ pc[c] = "trygo" => ENABLED ReportEventTryGo(c)

C5_Witness ==
    /\ \E c \in Callers : pc[c] = "trygo"
    /\ sem = maxConcurrentReports
    /\ lpc = "go"
    /\ inShutdown

\* C6: once the shuttingDown flag is set, no delivery task is started.
C6_NoStartAfterFlag ==
    [][shuttingDown => InFlight' <= InFlight]_vars

\* C7: after Shutdown has returned nil, no delivery task is running.
C7_NoneRunningAfterShutdown ==
    shutdownReturned => InFlight = 0

\* C8: a ReportEvent call that begins after Shutdown has returned drops its
\* event: it never reaches TryGo, no task is started for it and the client
\* is never invoked for it.
C8_DropsAfterShutdown ==
    obs.afterShutdown =>
        /\ obs.out \in {"calling", "disabled", "shuttingdown"}
        /\ obs.task = "none"
        /\ obs.invoked = 0
        /\ obs.out = "calling" => pc[obs.who] = "load"

C8_Witness ==
    obs.afterShutdown /\ obs.out = "shuttingdown" /\ ~doNotTrack

\* C9: Close never has to wait for a delivery to finish before it can put
\* its cancellation into the group.
C9_CloseNeverWaits ==
    (lpc = "go" /\ ~inShutdown) => ENABLED CloseGo

\* C10: when a Shutdown called with an already expired context returns, the
\* shared context is cancelled and no delivery task is in flight.
C10_ExpiredShutdownLikeClose ==
    [][(inShutdown /\ deadline = "expired" /\ lpc # "idle" /\ lpc' = "idle")
          => (ctxCancelled' /\ InFlight' = 0)]_vars

\* C11: a delivery that ends, failed or not, removes itself from the pool and
\* changes nothing else: the group's error and the shared context stay as
\* they are and the other tasks stay in flight.  The group's error is only
\* ever set by the task of Close, and the shared context is only cancelled
\* by that task, by a Wait that returns (in Shutdown's goroutine or in
\* Close), or by the cancellation of the constructor's context.
C11_FailureIsolated ==
    /\ [](err \in {"nil", "Canceled"})
    /\ [][/\ (running' < running \/ (obs.task = "delivering" /\ obs'.task = "done"))
              => /\ err' = err
                 /\ ctxCancelled' = ctxCancelled
                 /\ cancelTasks' = cancelTasks
                 /\ InFlight' = InFlight - 1
                 /\ obs'.task # obs.task => running' = running
          /\ err' # err => cancelTasks' < cancelTasks
          /\ (~ctxCancelled /\ ctxCancelled')
              => \/ cancelTasks' < cancelTasks
                 \/ waiter = "released" /\ waiter' = "sent"
                 \/ lpc = "wait_released" /\ lpc' = "idle"
                 \/ UNCHANGED <<sem, wg, err, running, cancelTasks, obs, lpc, waiter>>
         ]_vars

C11_Witness ==
    /\ obs.task = "done"
    /\ obs.result = "failed"
    /\ running > 0
    /\ ~ctxCancelled
    /\ err = "nil"

\* C12: every Shutdown and every Close returns nil; the group's error is
\* never anything but nil or context.Canceled, which is filtered out.
C12_AlwaysNil ==
    /\ lastRet \in {"none", "nil"}
    /\ reportsDone \in {"empty", "nil", "Canceled"}
    /\ err \in {"nil", "Canceled"}

C12_Witness ==
    /\ lastRet = "nil"
    /\ err = "Canceled"
    /\ obs.result = "failed"
    /\ lpc = "idle"

\* C13: when the second lifecycle call returns, it returns nil and the
\* reporter is in its terminal state: the shared context is cancelled, no
\* delivery task is in flight and no slot of the pool is occupied.
C13_SecondCallNoOp ==
    [][(lcalls = 2 /\ lpc # "idle" /\ lpc' = "idle")
          => (lastRet' = "nil" /\ ctxCancelled' /\ InFlight' = 0 /\ sem' = 0)]_vars

\* C14: once a ReportEvent call has passed the opt-out check, its event has
\* a timestamp, the reporter's session ID exactly when the caller left the
\* session ID empty (the caller's otherwise), and the caller's tags followed
\* by the reporter's tags, both in their order.
C14_Enrichment ==
    obs.out \in {"calling", "shuttingdown", "toomany", "started"} =>
        /\ event.Timestamp # "nil"
        /\ event.SessionID = IF rawEvent.SessionID = "" THEN sessionID
                             ELSE rawEvent.SessionID
        /\ event.Tags = rawEvent.Tags \o tags

C14_Witness ==
    /\ obs.out = "started"
    /\ rawEvent.SessionID = "caller"
    /\ event.SessionID = "caller"
    /\ event.Timestamp = "now"
    /\ event.Tags = <<"user-tag", "other-tag", "test-tag", "second-tag">>

\* C15: a ReportEvent call is dropped for opt-out exactly when the signal is
\* active at the moment the call reads it, whatever the signal was before;
\* a change of the signal leaves the pool, its tasks and the observed call
\* as they are, and a task admitted earlier still runs while the signal is
\* active.
C15_OptOutPerCall ==
    /\ []((doNotTrack /\ obs.task = "spawned") => ENABLED ObsTaskRun)
    /\ []((doNotTrack /\ running > 0) => ENABLED TaskFinish("ok"))
    /\ [][/\ (obs.out = "none" /\ obs'.out # "none")
              => (obs'.out = "disabled" <=> doNotTrack)
          /\ doNotTrack' # doNotTrack
              => UNCHANGED <<groupVars, obs, event, pc, shuttingDown>>
         ]_vars

C15_Witness ==
    /\ obs.out = "disabled"
    /\ running > 0
    /\ anyDone

\* C16: while Shutdown's deadline is not done, the Wait of Shutdown's
\* goroutine cancels the shared context only when no delivery task is in
\* flight.
C16_GracefulShutdown ==
    [][(/\ inShutdown
        /\ deadline = "live"
        /\ waiter = "released"
        /\ waiter' = "sent"
        /\ ~ctxCancelled) => InFlight = 0]_vars

\* C17: a Shutdown or Close call in progress eventually returns.
C17_LifecycleReturns ==
    (lpc # "idle") ~> (lpc = "idle")

\* C18: a ReportEvent call that begins after Close has returned, Shutdown
\* never having been called, starts no delivery task and never has the
\* client invoked.
C18_CloseTerminal ==
    obs.afterClose => (obs.task = "none" /\ obs.invoked = 0)

\* n copies of a sequence, one after the other.
RECURSIVE Repeat(_, _)
Repeat(s, n) == IF n = 0 THEN <<>> ELSE Repeat(s, n - 1) \o s

\* C19: an event reported n times with the opt-out signal inactive carries
\* the caller's tags followed by n copies of the reporter's tags; a call
\* enriches its event before it reads the shuttingDown flag and before
\* TryGo, without touching the pool, and an event dropped because the
\* reporter is shutting down or the pool is full stays enriched.
C19_EnrichmentNotIdempotent ==
    /\ [](event.Tags = rawEvent.Tags \o Repeat(tags, enrichments))
    /\ [](obs.out \in {"calling", "shuttingdown", "toomany", "started"}
            => (enrichments >= 1 /\ event.Timestamp # "nil" /\ event.SessionID # ""))
    /\ [][/\ (obs.out = "none" /\ obs'.out = "calling")
              => /\ enrichments' = enrichments + 1
                 /\ event'.Tags = event.Tags \o tags
                 /\ UNCHANGED <<groupVars, shuttingDown>>
          /\ (obs.out = "calling" /\ obs'.out \in {"shuttingdown", "toomany", "started"})
              => event' = event
         ]_vars

C19_Witness ==
    /\ enrichments = 2
    /\ obs.out = "toomany"
    /\ shuttingDown = FALSE
    /\ event.Tags = rawEvent.Tags \o tags \o tags
    /\ rawEvent.Tags # <<>>

====
